---- MODULE Spec2Model ----
(***************************************************************************)
(* Video Production Tracker.                                               *)
(*                                                                         *)
(* Two repositories are modelled, each with its own store:                 *)
(*   - the Flask handlers of app.py over the SQL tables of database.py     *)
(*     (variables videos, costs, settings);                                *)
(*   - the DataManager of models.py over its key-value store (variable db).*)
(* call is the request that was handled last, outcome what its caller saw  *)
(* (a flashed notice, a return value or a raised exception) together with  *)
(* the reason the handler took that path.  inflight holds the add requests *)
(* of the DataManager that are taken step by step rather than as a whole.  *)
(***************************************************************************)
EXTENDS Integers, Sequences, FiniteSets, TLC

VARIABLES videos, costs, settings, db, call, outcome, inflight

vars == <<videos, costs, settings, db, call, outcome, inflight>>

(***************************************************************************)
(* Bounds of the model.                                                    *)
(***************************************************************************)
MaxCosts == 2
MaxCostId == 3
MaxTime == 1
MaxVideos == 3

(***************************************************************************)
(* Python values.                                                          *)
(***************************************************************************)
None == "<None>"
Missing == "<missing>"
\* A timestamp attribute that is None, and a cost id that is None.
NoTime == 0
NoId == 0

Num(n) == [k |-> "num", n |-> n]
NaN == [k |-> "nan", n |-> 0]
NotNumeric == [k |-> "text", n |-> 0]

\* float(text): ValueError for text that is no number; "nan" parses to NaN.
ParsesAsFloat(x) == x.k # "text"

\* IEEE comparisons: every comparison with NaN is false.
Lt(a, b) == a.k = "num" /\ b.k = "num" /\ a.n < b.n
Le(a, b) == a.k = "num" /\ b.k = "num" /\ a.n <= b.n
Gt(a, b) == a.k = "num" /\ b.k = "num" /\ a.n > b.n

\* str.strip() on the strings the requests carry.
Strip(s) ==
  CASE s = "  " -> ""
    [] s = " v1 " -> "v1"
    [] s = " Acme " -> "Acme"
    [] OTHER -> s

\* request.form.get(key, default)
FormGet(v, default) == IF v = Missing THEN default ELSE v

Range(s) == {s[i] : i \in 1..Len(s)}

SetMax(S) == IF S = {} THEN 0 ELSE CHOOSE m \in S : \A x \in S : x <= m

(***************************************************************************)
(* database.py: enumerations of the SQL models.                            *)
(***************************************************************************)
VIDEO_STATUSES ==
  <<"Conceptualization & Script", "VO", "Visuals", "Animations & Editing", "Final">>
VIDEO_TYPES == <<"Brand", "System", "Testimonial", "About">>
TESTIMONIAL_STATUSES ==
  <<"Conceptualization & Script", "Avatar Creation", "Avatar Video Generation",
    "VO", "Visuals", "Animations & Editing", "Final">>
COST_TYPES == <<"Tool", "Freelancer", "Other">>
CURRENCIES == <<"USD", "PKR">>

(***************************************************************************)
(* models.py: enumerations of the DataManager's record classes.            *)
(***************************************************************************)
Video_VALID_STATUSES == <<"Script", "VO", "Visuals", "Editing", "Final">>
Video_VALID_TYPES == <<"Brand", "System", "Testimonial">>
CostModel_VALID_TYPES == <<"Tool", "Freelancer", "Other">>
CostModel_VALID_CURRENCIES == <<"USD", "PKR">>
CostModel_MAX_AMOUNT == 1000000

(***************************************************************************)
(* Inputs of the requests.                                                 *)
(***************************************************************************)
VideoIdInputs == {"v1", " v1 ", "v2", ""}
LookupIdInputs == {"v1", " v1 ", "v2"}
VideoTypeInputs == {"Brand", "Testimonial", "Podcast"}
\* A status field that is Missing takes the handler's default.
StatusInputs == {Missing, "Avatar Creation", "Final", "Script"}
Timestamps == 1..MaxTime

\* The outcomes a caller can see.
Flash(message, category) == <<"flash", message, category>>
Return(b) == <<"return", IF b THEN "True" ELSE "False">>
Raise(e) == <<"raise", e>>

Outcome(out, cause) == [out |-> out, cause |-> cause]

Call(op, args) == [op |-> op, args |-> args]

(***************************************************************************)
(* app.py: the video handlers over the videos table.                       *)
(* videos maps the primary key of each row to its type and status.         *)
(***************************************************************************)
\* The lookup with the type test dropped: every type gets the Testimonial list.
ValidStatusesFor_AnyType(video_type) == TESTIMONIAL_STATUSES

ValidStatusesFor(video_type) ==
  IF video_type = "Testimonial" THEN TESTIMONIAL_STATUSES ELSE VIDEO_STATUSES

add_video(form_id, form_type, form_status, commit_fails) ==
  LET video_id == Strip(FormGet(form_id, ""))
      video_type == FormGet(form_type, "")
      status == FormGet(form_status, "Conceptualization & Script")
      valid_statuses == ValidStatusesFor(video_type)
      Reject(message, cause) ==
        /\ videos' = videos
        /\ outcome' = Outcome(Flash(message, "error"), cause)
  IN /\ call' = Call("add_video",
                     [video_id |-> form_id, video_type |-> form_type,
                      status |-> form_status])
     /\ IF video_id = "" \/ video_type = ""
          THEN Reject("Video ID and Type are required", "validation")
        ELSE IF video_id \in DOMAIN videos
          THEN Reject("Video ID already exists", "duplicate")
        ELSE IF video_type \notin Range(VIDEO_TYPES)
          THEN Reject("Invalid video type", "validation")
        ELSE IF status \notin Range(valid_statuses)
          THEN Reject("Invalid video status", "validation")
        ELSE IF commit_fails
          THEN Reject("Error adding video", "persistence")
        ELSE /\ videos' = videos @@ (video_id :> [type |-> video_type, status |-> status])
             /\ outcome' = Outcome(Flash("Video added successfully", "success"), "ok")
     /\ UNCHANGED <<costs, settings, db, inflight>>

update_video_status(form_id, form_status, commit_fails) ==
  LET video_id == FormGet(form_id, None)
      new_status == FormGet(form_status, None)
      Reject(message, cause) ==
        /\ videos' = videos
        /\ outcome' = Outcome(Flash(message, "error"), cause)
  IN /\ call' = Call("update_video_status",
                     [video_id |-> form_id, status |-> form_status])
     /\ IF video_id \in {None, ""} \/ new_status \in {None, ""}
          THEN Reject("Invalid request", "validation")
        ELSE IF video_id \notin DOMAIN videos
          THEN Reject("Video not found", "not_found")
        ELSE IF new_status \notin Range(ValidStatusesFor(videos[video_id].type))
          THEN Reject("Invalid video status", "validation")
        ELSE IF commit_fails
          THEN Reject("Error updating video status", "persistence")
        ELSE /\ videos' = [videos EXCEPT ![video_id].status = new_status]
             /\ outcome' = Outcome(Flash("Video status updated successfully", "success"), "ok")
     /\ UNCHANGED <<costs, settings, db, inflight>>

delete_video(form_id, commit_fails) ==
  LET video_id == FormGet(form_id, None)
      Reject(message, cause) ==
        /\ videos' = videos
        /\ outcome' = Outcome(Flash(message, "error"), cause)
  IN /\ call' = Call("delete_video", [video_id |-> form_id])
     /\ IF video_id \in {None, ""}
          THEN Reject("Invalid request", "validation")
        ELSE IF video_id \notin DOMAIN videos
          THEN Reject("Video not found", "not_found")
        ELSE IF commit_fails
          THEN Reject("Error deleting video", "persistence")
        ELSE /\ videos' = [x \in DOMAIN videos \ {video_id} |-> videos[x]]
             /\ outcome' = Outcome(Flash("Video deleted successfully", "success"), "ok")
     /\ UNCHANGED <<costs, settings, db, inflight>>

(***************************************************************************)
(* models.py: the Video record class.                                      *)
(* A constructed object is [exc |-> None, obj |-> its attributes]; a       *)
(* constructor that raises is [exc |-> the exception, obj |-> the          *)
(* arguments].                                                             *)
(***************************************************************************)
Ok(obj) == [exc |-> None, obj |-> obj]
Raised(e, obj) == [exc |-> e, obj |-> obj]

Video__validate_id(id) == id \notin {None, Missing, ""} /\ Strip(id) # ""
Video__validate_type(type) == type \in Range(Video_VALID_TYPES)
Video__validate_status(status) == status \in Range(Video_VALID_STATUSES)

\* created_at and updated_at are column attributes of an object that was
\* never flushed: they read as None until update_status assigns one.
Video___init__(id, type, status) ==
  LET obj == [id |-> IF Video__validate_id(id) THEN Strip(id) ELSE id,
              type |-> type, status |-> status,
              created_at |-> NoTime, updated_at |-> NoTime]
  IN IF Video__validate_id(id) /\ Video__validate_type(type)
        /\ Video__validate_status(status)
       THEN Ok(obj)
       ELSE Raised("ValidationError", obj)

Video_to_dict(v) ==
  [id |-> v.id, type |-> v.type, status |-> v.status,
   created_at |-> v.created_at, updated_at |-> v.updated_at]

\* The parameters __init__ declares and the keywords from_dict passes to it.
Video___init___params == {"id", "type", "status"}
Video_from_dict_keywords == {"id", "type", "status", "created_at", "updated_at"}

\* cls(id=..., type=..., status=..., created_at=..., updated_at=...): a keyword
\* the constructor does not declare is a TypeError before any validation runs.
\* (DataManager reaches this method through the name VideoModel, which
\* models.py never binds; that lookup fails with a NameError, which every
\* caller handles exactly as it handles the TypeError.)
Video_from_dict(data) ==
  IF ~(Video_from_dict_keywords \subseteq Video___init___params)
    THEN Raised("TypeError", data)
    ELSE LET made == Video___init__(data.id, data.type, data.status)
         IN IF made.exc # None THEN made
            ELSE Ok([made.obj EXCEPT !.created_at = data.created_at,
                                     !.updated_at = data.updated_at])

(***************************************************************************)
(* models.py: DataManager over the key-value store db, video operations.   *)
(* db.videos is the list of dicts that save_videos wrote last.             *)
(***************************************************************************)
RECURSIVE LoadedObjects(_)
LoadedObjects(results) ==
  IF results = <<>> THEN <<>>
  ELSE IF Head(results).exc = None
    THEN <<Head(results).obj>> \o LoadedObjects(Tail(results))
    ELSE LoadedObjects(Tail(results))

\* A dict whose from_dict raises ValidationError is skipped; any other
\* exception leaves the loop and the outer handler returns the empty list.
DataManager_get_videos(store) ==
  LET results == [i \in 1..Len(store.videos) |-> Video_from_dict(store.videos[i])]
  IN IF \E i \in 1..Len(results) : results[i].exc \notin {None, "ValidationError"}
       THEN <<>>
       ELSE LoadedObjects(results)

\* The store after save_videos(list) succeeded.
DataManager_save_videos(store, list) ==
  [store EXCEPT !.videos = [i \in 1..Len(list) |-> Video_to_dict(list[i])]]

DataManager_add_video(id, type, status, write_fails) ==
  LET made == Video___init__(id, type, FormGet(status, "Script"))
      video == made.obj
      list == DataManager_get_videos(db)
      Reject(out, cause) ==
        /\ db' = db
        /\ outcome' = Outcome(out, cause)
  IN /\ call' = Call("DataManager.add_video",
                     [video_id |-> id, video_type |-> type, status |-> status])
     /\ IF made.exc # None
          THEN Reject(Raise(made.exc), "validation")
        ELSE IF \E i \in 1..Len(list) : list[i].id = video.id
          THEN Reject(Return(FALSE), "duplicate")
        ELSE IF write_fails
          THEN Reject(Return(FALSE), "persistence")
        ELSE /\ db' = DataManager_save_videos(db, Append(list, video))
             /\ outcome' = Outcome(Return(TRUE), "ok")
     /\ UNCHANGED <<videos, costs, settings, inflight>>

\* kwargs carries 'status' and 'type', each Missing when the caller omits it.
DataManager_update_video(video_id, kw_status, kw_type, now, write_fails) ==
  LET list == DataManager_get_videos(db)
      hits == {i \in 1..Len(list) : list[i].id = video_id}
      i == CHOOSE j \in hits : \A h \in hits : j <= h
      with_status ==
        IF kw_status # Missing
          THEN [list[i] EXCEPT !.status = kw_status, !.updated_at = now]
          ELSE list[i]
      with_type ==
        IF kw_type # Missing
          THEN [with_status EXCEPT !.type = kw_type, !.updated_at = now]
          ELSE with_status
      Reject(cause) ==
        /\ db' = db
        /\ outcome' = Outcome(Return(FALSE), cause)
  IN /\ call' = Call("DataManager.update_video",
                     [video_id |-> video_id, status |-> kw_status, type |-> kw_type])
     /\ IF hits = {}
          THEN Reject("not_found")
        ELSE IF kw_status # Missing /\ ~Video__validate_status(kw_status)
          THEN Reject("validation")
        ELSE IF kw_type # Missing /\ ~Video__validate_type(kw_type)
          THEN Reject("validation")
        ELSE IF write_fails
          THEN Reject("persistence")
        ELSE /\ db' = DataManager_save_videos(db, [list EXCEPT ![i] = with_type])
             /\ outcome' = Outcome(Return(TRUE), "ok")
     /\ UNCHANGED <<videos, costs, settings, inflight>>

DataManager_delete_video(video_id, write_fails) ==
  LET list == DataManager_get_videos(db)
      kept == SelectSeq(list, LAMBDA v : v.id # video_id)
      Reject(cause) ==
        /\ db' = db
        /\ outcome' = Outcome(Return(FALSE), cause)
  IN /\ call' = Call("DataManager.delete_video", [video_id |-> video_id])
     /\ IF ~(Len(kept) < Len(list))
          THEN Reject("not_found")
        ELSE IF write_fails
          THEN Reject("persistence")
        ELSE /\ db' = DataManager_save_videos(db, kept)
             /\ outcome' = Outcome(Return(TRUE), "ok")
     /\ UNCHANGED <<videos, costs, settings, inflight>>

(***************************************************************************)
(* app.py: the cost handlers over the costs table and the budget handler   *)
(* over the settings table.  costs maps the primary key of each row to its *)
(* columns; settings maps a key to its value.                              *)
(***************************************************************************)
CostTypeInputs == {"Tool", "Other", "Bogus"}
CostNameInputs == {"", "  ", "Acme"}
CurrencyInputs == {"USD", "PKR", "EUR"}
AmountInputs == {Num(0 - 5), Num(0), Num(50), Num(1000001), NotNumeric}
BudgetInputs == {Num(0 - 5), Num(0), Num(50), NaN, NotNumeric}
CostIdInputs == 1..MaxCostId

\* The integer primary key the database gives a new row: SQLite's rowid of
\* the configured fallback database, one more than the largest key in use.
NextRowId(table) == SetMax(DOMAIN table) + 1

add_cost(form_type, form_name, form_amount, form_currency, commit_fails) ==
  LET cost_type == FormGet(form_type, "")
      cost_name == Strip(FormGet(form_name, ""))
      amount == form_amount
      currency == FormGet(form_currency, "USD")
      named == cost_type \in {"Tool", "Freelancer"}
      Reject(message, cause) ==
        /\ costs' = costs
        /\ outcome' = Outcome(Flash(message, "error"), cause)
  IN /\ call' = Call("add_cost",
                     [cost_type |-> form_type, cost_name |-> form_name,
                      amount |-> form_amount, currency |-> form_currency])
     /\ IF ~ParsesAsFloat(form_amount)
          THEN Reject("Invalid amount entered", "validation")
        ELSE IF cost_type = "" \/ Le(amount, Num(0))
          THEN Reject("Cost type and valid amount are required", "validation")
        ELSE IF cost_type \notin Range(COST_TYPES)
          THEN Reject("Invalid cost type", "validation")
        ELSE IF currency \notin Range(CURRENCIES)
          THEN Reject("Invalid currency", "validation")
        ELSE IF named /\ cost_name = ""
          THEN Reject("Name is required for " \o cost_type \o " type", "validation")
        ELSE IF commit_fails
          THEN Reject("Error adding cost entry", "persistence")
        ELSE /\ costs' = costs @@
                  (NextRowId(costs) :>
                     [type |-> cost_type,
                      name |-> IF named THEN cost_name ELSE None,
                      amount |-> amount, currency |-> currency])
             /\ outcome' = Outcome(Flash("Cost entry added successfully", "success"), "ok")
     /\ UNCHANGED <<videos, settings, db, inflight>>

\* form_id is the integer the cost_id field parses to, or NoId when int()
\* raises on it.
delete_cost(form_id, commit_fails) ==
  LET cost_id == form_id
      Reject(message, cause) ==
        /\ costs' = costs
        /\ outcome' = Outcome(Flash(message, "error"), cause)
  IN /\ call' = Call("delete_cost", [cost_id |-> form_id])
     /\ IF form_id = NoId
          THEN Reject("Error deleting cost entry", "validation")
        ELSE IF cost_id \notin DOMAIN costs
          THEN Reject("Cost entry not found", "not_found")
        ELSE IF commit_fails
          THEN Reject("Error deleting cost entry", "persistence")
        ELSE /\ costs' = [x \in DOMAIN costs \ {cost_id} |-> costs[x]]
             /\ outcome' = Outcome(Flash("Cost entry deleted successfully", "success"), "ok")
     /\ UNCHANGED <<videos, settings, db, inflight>>

get_budget(table) == IF "budget" \in DOMAIN table THEN table["budget"] ELSE Num(0)

\* The settings table after save_budget(budget): the row is updated or
\* inserted and committed; a fault is logged and rolled back inside
\* save_budget, which then returns normally.
save_budget(table, budget, commit_fails) ==
  IF commit_fails THEN table
  ELSE IF "budget" \in DOMAIN table
    THEN [table EXCEPT !["budget"] = budget]
    ELSE table @@ ("budget" :> budget)

update_budget(form_budget, commit_fails) ==
  LET budget == form_budget
  IN /\ call' = Call("update_budget", [budget |-> form_budget])
     /\ IF ~ParsesAsFloat(form_budget)
          THEN /\ settings' = settings
               /\ outcome' = Outcome(Flash("Invalid budget amount", "error"), "validation")
        ELSE IF Lt(budget, Num(0))
          THEN /\ settings' = settings
               /\ outcome' = Outcome(Flash("Budget cannot be negative", "error"), "validation")
        ELSE /\ settings' = save_budget(settings, budget, commit_fails)
             /\ outcome' = Outcome(Flash("Budget updated successfully", "success"),
                                   IF commit_fails THEN "persistence" ELSE "ok")
     /\ UNCHANGED <<videos, costs, db, inflight>>

(***************************************************************************)
(* models.py: the CostModel record class.                                  *)
(***************************************************************************)
CostModel__validate_type(type) == type \in Range(CostModel_VALID_TYPES)

\* float(amount) must parse, and the value must lie in 0..1,000,000.
CostModel__validate_amount(amount) ==
  /\ ParsesAsFloat(amount)
  /\ ~Lt(amount, Num(0))
  /\ ~Gt(amount, Num(CostModel_MAX_AMOUNT))

\* round(amount, 2): amounts are whole numbers here, which it leaves as they are.
Round2(amount) == amount

CostModel__validate_currency(currency) == currency \in Range(CostModel_VALID_CURRENCIES)

\* created_at is the argument when it is given, else the time of the call.
CostModel___init__(id, type, amount, currency, notes, created_at, now) ==
  LET obj == [id |-> id, type |-> type,
              amount |-> IF CostModel__validate_amount(amount) THEN Round2(amount) ELSE amount,
              currency |-> currency, notes |-> Strip(notes),
              created_at |-> IF created_at # NoTime THEN created_at ELSE now]
  IN IF /\ CostModel__validate_type(type)
        /\ CostModel__validate_amount(amount)
        /\ CostModel__validate_currency(currency)
       THEN Ok(obj)
       ELSE Raised("ValidationError", obj)

CostModel_to_dict(c) ==
  [id |-> c.id, type |-> c.type, amount |-> c.amount, currency |-> c.currency,
   notes |-> c.notes, created_at |-> c.created_at]

CostModel_from_dict(data, now) ==
  CostModel___init__(data.id, data.type, data.amount, data.currency, data.notes,
                     data.created_at, now)

(***************************************************************************)
(* models.py: DataManager over the key-value store db, cost and budget     *)
(* operations.  db.costs is the list of dicts that save_costs wrote last,  *)
(* db.budget the value under the key 'budget'.                             *)
(***************************************************************************)
Absent == [k |-> "absent", n |-> 0]

DataManager_get_costs(store, now) ==
  LoadedObjects([i \in 1..Len(store.costs) |-> CostModel_from_dict(store.costs[i], now)])

\* The store after save_costs(list) succeeded.
DataManager_save_costs(store, list) ==
  [store EXCEPT !.costs = [i \in 1..Len(list) |-> CostModel_to_dict(list[i])]]

\* The id add_cost gives a cost that carries none.
DataManager_new_cost_id(list) ==
  SetMax({list[i].id : i \in {j \in 1..Len(list) : list[j].id # NoId}}) + 1

DataManager_add_cost(id, type, amount, currency, notes, now, write_fails) ==
  LET made == CostModel___init__(id, type, amount, currency, notes, NoTime, now)
      list == DataManager_get_costs(db, now)
      cost == IF made.obj.id = NoId
                THEN [made.obj EXCEPT !.id = DataManager_new_cost_id(list)]
                ELSE made.obj
      Reject(out, cause) ==
        /\ db' = db
        /\ outcome' = Outcome(out, cause)
  IN /\ call' = Call("DataManager.add_cost",
                     [id |-> id, type |-> type, amount |-> amount,
                      currency |-> currency, notes |-> notes])
     /\ IF made.exc # None
          THEN Reject(Raise(made.exc), "validation")
        ELSE IF write_fails
          THEN Reject(Return(FALSE), "persistence")
        ELSE /\ db' = DataManager_save_costs(db, Append(list, cost))
             /\ outcome' = Outcome(Return(TRUE), "ok")
     /\ UNCHANGED <<videos, costs, settings, inflight>>

DataManager_delete_cost(cost_id, now, write_fails) ==
  LET list == DataManager_get_costs(db, now)
      kept == SelectSeq(list, LAMBDA c : c.id # cost_id)
      Reject(cause) ==
        /\ db' = db
        /\ outcome' = Outcome(Return(FALSE), cause)
  IN /\ call' = Call("DataManager.delete_cost", [cost_id |-> cost_id])
     /\ IF ~(Len(kept) < Len(list))
          THEN Reject("not_found")
        ELSE IF write_fails
          THEN Reject("persistence")
        ELSE /\ db' = DataManager_save_costs(db, kept)
             /\ outcome' = Outcome(Return(TRUE), "ok")
     /\ UNCHANGED <<videos, costs, settings, inflight>>

DataManager_get_budget(store) == IF store.budget = Absent THEN Num(0) ELSE store.budget

DataManager_set_budget(budget, write_fails) ==
  LET Reject(cause) ==
        /\ db' = db
        /\ outcome' = Outcome(Return(FALSE), cause)
  IN /\ call' = Call("DataManager.set_budget", [budget |-> budget])
     /\ IF Lt(budget, Num(0))
          THEN Reject("validation")
        ELSE IF write_fails
          THEN Reject("persistence")
        ELSE /\ db' = [db EXCEPT !.budget = budget]
             /\ outcome' = Outcome(Return(TRUE), "ok")
     /\ UNCHANGED <<videos, costs, settings, inflight>>

(***************************************************************************)
(* models.py: ProjectStats, the statistics calculator.  An instance self   *)
(* is [videos, costs, budget]: a list of video objects, a list of cost     *)
(* objects and a float.  A method result is Ok(value) or Raised(exception).*)
(* Quotients are kept exact: TrueDiv(n, d) is the float n / d.             *)
(***************************************************************************)
Float(n, d) == [k |-> "float", n |-> n, d |-> d]

\* The literal 0.0.
Float0 == Float(0, 1)

\* n / d on Python numbers: a zero divisor raises.
TrueDiv(n, d) ==
  IF d = 0 THEN Raised("ZeroDivisionError", Float(n, d)) ELSE Ok(Float(n, d))

RECURSIVE SumAmounts(_)
SumAmounts(list) ==
  IF list = <<>> THEN 0 ELSE Head(list).amount.n + SumAmounts(Tail(list))

\* The test with the comparison dropped: every video counts as completed.
Video_is_completed_Always(v) == TRUE

Video_is_completed(v) == v.status = "Final"

ProjectStats___init__(videos_, costs_, budget) ==
  [videos |-> videos_, costs |-> costs_, budget |-> budget]

ProjectStats_get_total_videos(self) == Len(self.videos)

ProjectStats_get_completed_videos(self) ==
  Len(SelectSeq(self.videos, Video_is_completed))

ProjectStats_get_pending_videos(self) ==
  ProjectStats_get_total_videos(self) - ProjectStats_get_completed_videos(self)

ProjectStats_get_completion_rate(self) ==
  LET total == ProjectStats_get_total_videos(self)
  IN IF total = 0 THEN Ok(Float0)
     ELSE TrueDiv(ProjectStats_get_completed_videos(self) * 100, total)

\* models.py defines the class Video and never binds the name VideoModel that
\* the two distribution methods read.
VideoModel_is_bound == FALSE

\* {key: 0 for key in keys}, then distribution[video.attr] += 1 per video: a
\* video whose attribute is not a key raises KeyError.
Distribution(keys, list, attr) ==
  IF \E i \in 1..Len(list) : list[i][attr] \notin keys
    THEN Raised("KeyError", <<>>)
    ELSE Ok([key \in keys |-> Cardinality({i \in 1..Len(list) : list[i][attr] = key})])

ProjectStats_get_status_distribution(self) ==
  IF ~VideoModel_is_bound THEN Raised("NameError", <<>>)
  ELSE Distribution(Range(Video_VALID_STATUSES), self.videos, "status")

ProjectStats_get_type_distribution(self) ==
  IF ~VideoModel_is_bound THEN Raised("NameError", <<>>)
  ELSE Distribution(Range(Video_VALID_TYPES), self.videos, "type")

\* A key for each currency that occurs in the list, and no other.
ProjectStats_get_total_costs_by_currency(self) ==
  [currency \in {self.costs[i].currency : i \in 1..Len(self.costs)} |->
     Num(SumAmounts(SelectSeq(self.costs, LAMBDA c : c.currency = currency)))]

\* The distribution with the currency test dropped: every cost is counted.
ProjectStats_get_cost_distribution_by_type_AnyCurrency(self) ==
  [type \in Range(CostModel_VALID_TYPES) |->
     Num(SumAmounts(SelectSeq(self.costs, LAMBDA c : c.type = type)))]

ProjectStats_get_cost_distribution_by_type(self) ==
  [type \in Range(CostModel_VALID_TYPES) |->
     Num(SumAmounts(SelectSeq(self.costs,
                              LAMBDA c : c.currency = "USD" /\ c.type = type)))]

\* The budget status with spent summed over every cost, whatever its currency.
ProjectStats_get_budget_status_AnyCurrency(self) ==
  LET usd_spent == SumAmounts(self.costs)
      remaining == self.budget.n - usd_spent
  IN [budget |-> self.budget,
      spent |-> Num(usd_spent),
      remaining |-> Num(remaining),
      percentage_used |->
        IF Gt(self.budget, Num(0)) THEN TrueDiv(usd_spent * 100, self.budget.n).obj
        ELSE Float0,
      over_budget |-> remaining < 0,
      near_budget |->
        IF Gt(self.budget, Num(0)) THEN 10 * remaining < self.budget.n ELSE FALSE]

\* remaining < budget * 0.1 is compared exactly, as 10 * remaining < budget.
ProjectStats_get_budget_status(self) ==
  LET usd_spent == SumAmounts(SelectSeq(self.costs, LAMBDA c : c.currency = "USD"))
      remaining == self.budget.n - usd_spent
  IN [budget |-> self.budget,
      spent |-> Num(usd_spent),
      remaining |-> Num(remaining),
      percentage_used |->
        IF Gt(self.budget, Num(0)) THEN TrueDiv(usd_spent * 100, self.budget.n).obj
        ELSE Float0,
      over_budget |-> remaining < 0,
      near_budget |->
        IF Gt(self.budget, Num(0)) THEN 10 * remaining < self.budget.n ELSE FALSE]

\* cost_totals.get(currency, 0.0)
TotalOf(cost_totals, currency) ==
  IF currency \in DOMAIN cost_totals THEN cost_totals[currency].n ELSE 0

\* The average with the test for an empty video list dropped.
ProjectStats_get_average_cost_per_video_Unguarded(self) ==
  LET total_videos == ProjectStats_get_total_videos(self)
      cost_totals == ProjectStats_get_total_costs_by_currency(self)
      usd == TrueDiv(TotalOf(cost_totals, "USD"), total_videos)
      pkr == TrueDiv(TotalOf(cost_totals, "PKR"), total_videos)
  IN IF usd.exc # None THEN usd
     ELSE IF pkr.exc # None THEN pkr
     ELSE Ok([USD |-> usd.obj, PKR |-> pkr.obj])

ProjectStats_get_average_cost_per_video(self) ==
  LET total_videos == ProjectStats_get_total_videos(self)
      cost_totals == ProjectStats_get_total_costs_by_currency(self)
      usd == TrueDiv(TotalOf(cost_totals, "USD"), total_videos)
      pkr == TrueDiv(TotalOf(cost_totals, "PKR"), total_videos)
  IN IF total_videos = 0 THEN Ok([USD |-> Float0, PKR |-> Float0])
     ELSE IF usd.exc # None THEN usd
     ELSE IF pkr.exc # None THEN pkr
     ELSE Ok([USD |-> usd.obj, PKR |-> pkr.obj])

\* key=lambda x: x.created_at or '': a missing timestamp sorts as the empty
\* string, below every timestamp; NoTime is below every value of a timestamp.
CreatedKey(x) == x.created_at

\* Where an ascending stable sort puts x among items that are already in
\* descending order: in front of the items with a smaller or equal key.
InsertReversed_BeforeTies(items, x) ==
  LET n == Cardinality({i \in 1..Len(items) : CreatedKey(items[i]) > CreatedKey(x)})
  IN SubSeq(items, 1, n) \o <<x>> \o SubSeq(items, n + 1, Len(items))

\* Where sorted(..., reverse=True) puts x among the items that came before it
\* in the list: behind every item whose key is greater or equal.
InsertReversed(items, x) ==
  LET n == Cardinality({i \in 1..Len(items) : CreatedKey(items[i]) >= CreatedKey(x)})
  IN SubSeq(items, 1, n) \o <<x>> \o SubSeq(items, n + 1, Len(items))

\* sorted(list, key=..., reverse=True): descending, equal keys in list order.
RECURSIVE SortedReversed(_)
SortedReversed(list) ==
  IF list = <<>> THEN <<>>
  ELSE InsertReversed(SortedReversed(SubSeq(list, 1, Len(list) - 1)), list[Len(list)])

\* list[:limit] for a limit that is not negative.
Slice(list, limit) == SubSeq(list, 1, IF limit < Len(list) THEN limit ELSE Len(list))

ProjectStats_get_recent_activity(self, limit) ==
  LET recent_videos == Slice(SortedReversed(self.videos), limit)
      recent_costs == Slice(SortedReversed(self.costs), limit)
  IN [videos |-> [i \in 1..Len(recent_videos) |-> Video_to_dict(recent_videos[i])],
      costs |-> [i \in 1..Len(recent_costs) |-> CostModel_to_dict(recent_costs[i])]]

\* The methods as steps: call holds the instance and the arguments, outcome
\* the value returned or the exception raised.
ProjectStats_methods ==
  {"ProjectStats.__init__", "ProjectStats.get_total_videos",
   "ProjectStats.get_completed_videos", "ProjectStats.get_pending_videos",
   "ProjectStats.get_completion_rate", "ProjectStats.get_status_distribution",
   "ProjectStats.get_type_distribution", "ProjectStats.get_total_costs_by_currency",
   "ProjectStats.get_cost_distribution_by_type", "ProjectStats.get_budget_status",
   "ProjectStats.get_average_cost_per_video", "ProjectStats.get_recent_activity"}

Value(v) == <<"value", v>>

ProjectStats_call(method, argv, result) ==
  /\ call.op \in ProjectStats_methods
  /\ call' = Call(method, [self |-> call.args.self, argv |-> argv])
  /\ outcome' = IF result.exc = None
                  THEN Outcome(Value(result.obj), "ok")
                  ELSE Outcome(Raise(result.exc), "exception")
  /\ UNCHANGED <<videos, costs, settings, db, inflight>>

(***************************************************************************)
(* app.py: the dashboard view and the JSON dashboard endpoint.  Both read  *)
(* the tables and change nothing.                                          *)
(***************************************************************************)
RECURSIVE SumRows(_, _)
SumRows(table, ids) ==
  IF ids = {} THEN 0
  ELSE LET id == CHOOSE x \in ids : TRUE
       IN table[id].amount.n + SumRows(table, ids \ {id})

\* len([v for v in videos if v.attr == value])
CountRows(table, attr, value) ==
  Cardinality({id \in DOMAIN table : table[id][attr] = value})

\* The keyword arguments index passes to the template.
index_context ==
  LET total_videos == Cardinality(DOMAIN videos)
      completed_videos == CountRows(videos, "status", "Final")
      all_statuses == Range(VIDEO_STATUSES \o TESTIMONIAL_STATUSES)
  IN [budget |-> get_budget(settings),
      total_videos |-> total_videos,
      completed_videos |-> completed_videos,
      pending_videos |-> total_videos - completed_videos,
      total_costs_usd |->
        SumRows(costs, {id \in DOMAIN costs : costs[id].currency = "USD"}),
      total_costs_pkr |->
        SumRows(costs, {id \in DOMAIN costs : costs[id].currency = "PKR"}),
      status_counts |->
        [status \in all_statuses |-> CountRows(videos, "status", status)],
      type_counts |->
        [vtype \in Range(VIDEO_TYPES) |-> CountRows(videos, "type", vtype)]]

index ==
  /\ call' = Call("index", <<>>)
  /\ outcome' = Outcome(<<"render", "index.html", index_context>>, "ok")
  /\ UNCHANGED <<videos, costs, settings, db, inflight>>

\* get_videos() returns the rows as objects of the class Video, which has no
\* method get: v.get('status') raises AttributeError on the first row.
Video_has_get == FALSE

api_dashboard_data ==
  LET body ==
        [status_counts |->
           [status \in Range(VIDEO_STATUSES) |->
              CountRows(videos, "status", status)],
         type_counts |->
           [vtype \in Range(VIDEO_TYPES) |-> CountRows(videos, "type", vtype)],
         total_videos |-> Cardinality(DOMAIN videos),
         completed_videos |-> CountRows(videos, "status", "Final")]
  IN /\ call' = Call("api_dashboard_data", <<>>)
     /\ outcome' =
          IF DOMAIN videos # {} /\ ~Video_has_get
            THEN Outcome(<<"json", "500", [error |-> "Failed to fetch data"]>>, "exception")
            ELSE Outcome(<<"json", "200", body>>, "ok")
     /\ UNCHANGED <<videos, costs, settings, db, inflight>>

(***************************************************************************)
(* models.py: DataManager.import_data.  data is [keys, videos, costs,      *)
(* budget]: keys is the set of keys the dict has, and the other fields are *)
(* the values under them (read only when the key is present).  write_fails *)
(* is the set of keys whose write to the store fails.                      *)
(***************************************************************************)
DataManager_import_data(data, now, write_fails) ==
  LET video_results == [i \in 1..Len(data.videos) |-> Video_from_dict(data.videos[i])]
      videos_raise ==
        "videos" \in data.keys /\ \E i \in 1..Len(video_results) : video_results[i].exc # None
      \* self.save_videos(videos): the value it returns is dropped.
      after_videos ==
        IF "videos" \in data.keys /\ "videos" \notin write_fails
          THEN DataManager_save_videos(db, LoadedObjects(video_results))
          ELSE db
      cost_results == [i \in 1..Len(data.costs) |-> CostModel_from_dict(data.costs[i], now)]
      costs_raise ==
        "costs" \in data.keys /\ \E i \in 1..Len(cost_results) : cost_results[i].exc # None
      \* self.save_costs(costs): the value it returns is dropped.
      after_costs ==
        IF "costs" \in data.keys /\ "costs" \notin write_fails
          THEN DataManager_save_costs(after_videos, LoadedObjects(cost_results))
          ELSE after_videos
      budget_raises == "budget" \in data.keys /\ ~ParsesAsFloat(data.budget)
      \* self.set_budget(float(...)): it returns False for a negative budget and
      \* for a failed write, and the value it returns is dropped.
      after_budget ==
        IF "budget" \in data.keys /\ ~Lt(data.budget, Num(0)) /\ "budget" \notin write_fails
          THEN [after_costs EXCEPT !.budget = data.budget]
          ELSE after_costs
  IN /\ call' = Call("DataManager.import_data", [data |-> data])
     /\ IF videos_raise
          THEN /\ db' = db
               /\ outcome' = Outcome(Return(FALSE), "exception")
        ELSE IF costs_raise
          THEN /\ db' = after_videos
               /\ outcome' = Outcome(Return(FALSE), "exception")
        ELSE IF budget_raises
          THEN /\ db' = after_costs
               /\ outcome' = Outcome(Return(FALSE), "exception")
        ELSE /\ db' = after_budget
             /\ outcome' = Outcome(Return(TRUE), "ok")
     /\ UNCHANGED <<videos, costs, settings, inflight>>

(***************************************************************************)
(* models.py: DataManager.add_video and DataManager.add_cost, step by      *)
(* step.  Each reads the whole list, appends to its copy and writes the    *)
(* whole list back; nothing holds the store between the steps, so the      *)
(* steps of two requests interleave.  inflight[r] is request r: the method,*)
(* the record to add, the next step, the copy of the list and the value    *)
(* returned.                                                               *)
(***************************************************************************)
Requests == {1, 2}

Idle == [op |-> "none", pc |-> "idle", record |-> <<>>, list |-> <<>>, ret |-> None]

\* A request arrives with the record it adds.
add_begin(r, op, record) ==
  /\ inflight[r].pc = "idle"
  /\ inflight' = [inflight EXCEPT ![r] =
                    [op |-> op, pc |-> "read", record |-> record, list |-> <<>>,
                     ret |-> None]]
  /\ UNCHANGED <<videos, costs, settings, db, call, outcome>>

\* videos = self.get_videos()  /  costs = self.get_costs()
add_read_all(r, now) ==
  /\ inflight[r].pc = "read"
  /\ inflight' = [inflight EXCEPT ![r].pc = "append",
                                  ![r].list = IF inflight[r].op = "add_video"
                                                THEN DataManager_get_videos(db)
                                                ELSE DataManager_get_costs(db, now)]
  /\ UNCHANGED <<videos, costs, settings, db, call, outcome>>

\* add_video: the duplicate test, then videos.append(video).
\* add_cost: the id max + 1 for a cost without one, then costs.append(cost).
add_append(r) ==
  LET req == inflight[r]
      cost == IF req.record.id = NoId
                THEN [req.record EXCEPT !.id = DataManager_new_cost_id(req.list)]
                ELSE req.record
  IN /\ req.pc = "append"
     /\ inflight' =
          IF req.op = "add_video"
            THEN IF \E i \in 1..Len(req.list) : req.list[i].id = req.record.id
                   THEN [inflight EXCEPT ![r].pc = "done", ![r].ret = "False"]
                   ELSE [inflight EXCEPT ![r].pc = "write",
                                         ![r].list = Append(req.list, req.record)]
            ELSE [inflight EXCEPT ![r].pc = "write", ![r].record = cost,
                                  ![r].list = Append(req.list, cost)]
     /\ UNCHANGED <<videos, costs, settings, db, call, outcome>>

\* return self.save_videos(videos)  /  return self.save_costs(costs)
add_write_all(r, write_fails) ==
  LET req == inflight[r]
  IN /\ req.pc = "write"
     /\ IF write_fails
          THEN /\ db' = db
               /\ inflight' = [inflight EXCEPT ![r].pc = "done", ![r].ret = "False"]
          ELSE /\ db' = IF req.op = "add_video"
                          THEN DataManager_save_videos(db, req.list)
                          ELSE DataManager_save_costs(db, req.list)
               /\ inflight' = [inflight EXCEPT ![r].pc = "done", ![r].ret = "True"]
     /\ UNCHANGED <<videos, costs, settings, call, outcome>>

(***************************************************************************)
(* The state after construction: empty tables, an empty key-value store,   *)
(* no request handled yet.                                                 *)
(***************************************************************************)
EmptyRows == [x \in {} |-> x]

Init ==
  /\ videos = EmptyRows
  /\ costs = EmptyRows
  /\ settings = EmptyRows
  /\ db = [videos |-> <<>>, costs |-> <<>>, budget |-> Absent]
  /\ call = Call("none", [x \in {} |-> x])
  /\ outcome = Outcome(<<"none">>, "none")
  /\ inflight = [r \in Requests |-> Idle]

\* The handlers fall into groups that share no store: the video operations
\* of both repositories, the cost and budget handlers of app.py, and the cost
\* and budget methods of the DataManager; then the statistics, import_data
\* and the step-by-step adds.  Each group has its own specification; Spec is
\* their union.
NextVideos ==
  \/ \E id \in VideoIdInputs, type \in VideoTypeInputs, status \in StatusInputs,
        fails \in BOOLEAN :
       add_video(id, type, status, fails)
  \/ \E id \in LookupIdInputs \cup {Missing}, status \in StatusInputs, fails \in BOOLEAN :
       update_video_status(id, status, fails)
  \/ \E id \in LookupIdInputs \cup {Missing}, fails \in BOOLEAN :
       delete_video(id, fails)
  \/ \E id \in VideoIdInputs, type \in VideoTypeInputs, status \in StatusInputs,
        fails \in BOOLEAN :
       DataManager_add_video(id, type, status, fails)
  \/ \E id \in LookupIdInputs, status \in StatusInputs,
        type \in VideoTypeInputs \cup {Missing},
        now \in Timestamps, fails \in BOOLEAN :
       DataManager_update_video(id, status, type, now, fails)
  \/ \E id \in LookupIdInputs, fails \in BOOLEAN :
       DataManager_delete_video(id, fails)

SpecVideos == Init /\ [][NextVideos]_vars

NextAppCosts ==
  \/ \E type \in CostTypeInputs, name \in CostNameInputs, amount \in AmountInputs,
        currency \in CurrencyInputs, fails \in BOOLEAN :
       /\ Cardinality(DOMAIN costs) < MaxCosts
       /\ NextRowId(costs) <= MaxCostId
       /\ add_cost(type, name, amount, currency, fails)
  \/ \E id \in CostIdInputs \cup {NoId}, fails \in BOOLEAN :
       delete_cost(id, fails)
  \/ \E budget \in BudgetInputs, fails \in BOOLEAN :
       update_budget(budget, fails)

SpecAppCosts == Init /\ [][NextAppCosts]_vars

DataManagerAmountInputs == {Num(0 - 5), Num(0), Num(50), Num(1000001)}
DataManagerBudgetInputs == {Num(0 - 5), Num(0), Num(50), NaN}
NotesInputs == {" Acme "}

NextDataManagerCosts ==
  \/ \E id \in CostIdInputs \cup {NoId}, type \in CostTypeInputs,
        amount \in DataManagerAmountInputs, currency \in CurrencyInputs,
        notes \in NotesInputs, now \in Timestamps, fails \in BOOLEAN :
       /\ Len(db.costs) < MaxCosts
       /\ DataManager_new_cost_id(db.costs) <= MaxCostId
       /\ DataManager_add_cost(id, type, amount, currency, notes, now, fails)
  \/ \E id \in CostIdInputs, now \in Timestamps, fails \in BOOLEAN :
       DataManager_delete_cost(id, now, fails)
  \/ \E budget \in DataManagerBudgetInputs, fails \in BOOLEAN :
       DataManager_set_budget(budget, fails)

SpecDataManagerCosts == Init /\ [][NextDataManagerCosts]_vars

\* The statistics of both layers: the ProjectStats methods on an instance
\* built from bounded lists, and the two dashboard handlers on the tables the
\* video handlers build.
StatsVideoIds == <<"v1", "v2", "v3", "v4", "v5">>
VideoKinds == {<<"Brand", "Script">>, <<"Testimonial", "Avatar Creation">>,
               <<"Brand", "Final">>}
StampInputs == {NoTime, 1, 2}
VideoLists ==
  UNION {{[i \in 1..n |-> [id |-> StatsVideoIds[i], type |-> f[i][1][1],
                           status |-> f[i][1][2], created_at |-> f[i][2],
                           updated_at |-> NoTime]] :
            f \in [1..n -> VideoKinds \X StampInputs]} : n \in 0..MaxVideos}

CostKinds == {<<"Tool", 95, "USD">>, <<"Freelancer", 25, "USD">>, <<"Other", 90, "USD">>,
              <<"Tool", 25, "PKR">>, <<"Other", 95, "PKR">>}
CostLists ==
  UNION {{[i \in 1..n |-> [id |-> i, type |-> f[i][1][1], amount |-> Num(f[i][1][2]),
                           currency |-> f[i][1][3], notes |-> "Acme",
                           created_at |-> f[i][2]]] :
            f \in [1..n -> CostKinds \X (StampInputs \ {NoTime})]} : n \in 0..MaxCosts}

StatsBudgetInputs == {Num(0), Num(100)}
LimitInputs == 0..(MaxVideos + 1)

\* Instances that vary the video list, and instances that vary the cost list
\* and the budget over no video and over one video.
Instances ==
  {ProjectStats___init__(vs, <<>>, Num(0)) : vs \in VideoLists}
  \cup {ProjectStats___init__(x[1], x[2], x[3]) :
          x \in {vs \in VideoLists : Len(vs) <= 1 /\ \A i \in 1..Len(vs) : vs[i].created_at = 1}
                \X CostLists \X StatsBudgetInputs}

InitStats ==
  /\ videos = EmptyRows
  /\ costs = EmptyRows
  /\ settings = EmptyRows
  /\ db = [videos |-> <<>>, costs |-> <<>>, budget |-> Absent]
  /\ \/ call = Call("none", [x \in {} |-> x])
     \/ \E self \in Instances :
          call = Call("ProjectStats.__init__", [self |-> self, argv |-> <<>>])
  /\ outcome = Outcome(<<"none">>, "none")
  /\ inflight = [r \in Requests |-> Idle]

NextStats ==
  \/ ProjectStats_call("ProjectStats.get_total_videos", <<>>,
                       Ok(ProjectStats_get_total_videos(call.args.self)))
  \/ ProjectStats_call("ProjectStats.get_completed_videos", <<>>,
                       Ok(ProjectStats_get_completed_videos(call.args.self)))
  \/ ProjectStats_call("ProjectStats.get_pending_videos", <<>>,
                       Ok(ProjectStats_get_pending_videos(call.args.self)))
  \/ ProjectStats_call("ProjectStats.get_completion_rate", <<>>,
                       ProjectStats_get_completion_rate(call.args.self))
  \/ ProjectStats_call("ProjectStats.get_status_distribution", <<>>,
                       ProjectStats_get_status_distribution(call.args.self))
  \/ ProjectStats_call("ProjectStats.get_type_distribution", <<>>,
                       ProjectStats_get_type_distribution(call.args.self))
  \/ ProjectStats_call("ProjectStats.get_total_costs_by_currency", <<>>,
                       Ok(ProjectStats_get_total_costs_by_currency(call.args.self)))
  \/ ProjectStats_call("ProjectStats.get_cost_distribution_by_type", <<>>,
                       Ok(ProjectStats_get_cost_distribution_by_type(call.args.self)))
  \/ ProjectStats_call("ProjectStats.get_budget_status", <<>>,
                       Ok(ProjectStats_get_budget_status(call.args.self)))
  \/ ProjectStats_call("ProjectStats.get_average_cost_per_video", <<>>,
                       ProjectStats_get_average_cost_per_video(call.args.self))
  \/ \E limit \in LimitInputs :
       ProjectStats_call("ProjectStats.get_recent_activity", <<limit>>,
                         Ok(ProjectStats_get_recent_activity(call.args.self, limit)))
  \/ \E id \in {"v1", "v2"}, type \in {"Brand", "Testimonial"},
        status \in {Missing, "Avatar Creation", "Final"}, fails \in BOOLEAN :
       add_video(id, type, status, fails)
  \/ \E id \in {"v1", "v2"}, status \in {"Avatar Creation", "Final", "VO"},
        fails \in BOOLEAN :
       update_video_status(id, status, fails)
  \/ \E id \in {"v1", "v2"}, fails \in BOOLEAN :
       delete_video(id, fails)
  \/ index
  \/ api_dashboard_data

SpecStats == InitStats /\ [][NextStats]_vars

\* import_data over stores that add_video and earlier imports filled.
ImportVideoInputs ==
  {<<>>,
   <<[id |-> "v1", type |-> "Brand", status |-> "Final",
      created_at |-> 1, updated_at |-> 1]>>}
ValidCostData ==
  [id |-> 1, type |-> "Tool", amount |-> Num(50), currency |-> "USD",
   notes |-> "Acme", created_at |-> 1]
InvalidCostData ==
  [id |-> 2, type |-> "Tool", amount |-> Num(0 - 5), currency |-> "USD",
   notes |-> "Acme", created_at |-> 1]
ImportCostInputs == {<<>>, <<ValidCostData>>, <<ValidCostData, InvalidCostData>>}
ImportBudgetInputs == {Num(50), Num(0 - 5), NotNumeric}
ImportKeys == {"videos", "costs", "budget"}

NextImport ==
  \/ \E keys \in SUBSET ImportKeys, vs \in ImportVideoInputs, cs \in ImportCostInputs,
        budget \in ImportBudgetInputs, now \in Timestamps,
        write_fails \in SUBSET ImportKeys :
       DataManager_import_data([keys |-> keys, videos |-> vs, costs |-> cs,
                                budget |-> budget], now, write_fails)
  \/ \E id \in {"v1", "v2"}, fails \in BOOLEAN :
       DataManager_add_video(id, "Brand", "Final", fails)

SpecImport == Init /\ [][NextImport]_vars

\* Two add requests, one per client, and every interleaving of their steps.
AddVideoInputs ==
  {Video___init__(id, "Brand", "Final").obj : id \in {"v1", "v2"}}
AddCostInputs ==
  {CostModel___init__(NoId, "Tool", Num(50), "USD", notes, NoTime, 1).obj :
     notes \in {"Acme", "Zeta"}}

NextConcurrentAdds ==
  \/ \E r \in Requests, video \in AddVideoInputs : add_begin(r, "add_video", video)
  \/ \E r \in Requests, cost \in AddCostInputs : add_begin(r, "add_cost", cost)
  \/ \E r \in Requests, now \in Timestamps : add_read_all(r, now)
  \/ \E r \in Requests : add_append(r)
  \/ \E r \in Requests, fails \in BOOLEAN : add_write_all(r, fails)

SpecConcurrentAdds == Init /\ [][NextConcurrentAdds]_vars

Next ==
  NextVideos \/ NextAppCosts \/ NextDataManagerCosts \/ NextStats \/ NextImport
    \/ NextConcurrentAdds

Spec == Init /\ [][Next]_vars

(***************************************************************************)
(* The properties.                                                         *)
(***************************************************************************)
\* The progression list of a video type, as the data model states it: the
\* 7-stage list for Testimonial, the 5-stage list for every other type.
ProgressionList(type) ==
  IF type = "Testimonial"
    THEN {"Conceptualization & Script", "Avatar Creation", "Avatar Video Generation",
          "VO", "Visuals", "Animations & Editing", "Final"}
    ELSE {"Conceptualization & Script", "VO", "Visuals", "Animations & Editing", "Final"}

\* What the caller saw was a success: a success notice or a True return.
IsSuccess(o) ==
  \/ (o.out[1] = "flash" /\ o.out[3] = "success")
  \/ o.out = Return(TRUE)

\* What the caller saw was a failure: an error notice, a False return or an
\* exception.
IsFailure(o) ==
  \/ (o.out[1] = "flash" /\ o.out[3] = "error")
  \/ o.out = Return(FALSE)
  \/ o.out[1] = "raise"

StoredVideoIds == DOMAIN videos
DataManagerVideoIds == {db.videos[i].id : i \in 1..Len(db.videos)}
DataManagerCostIds == {db.costs[i].id : i \in 1..Len(db.costs)}

\* C1: every stored video's status is a member of the progression list of
\* that video's current type, in the videos table and in the DataManager's
\* store alike.
C1_StatusMatchesType ==
  /\ \A id \in DOMAIN videos : videos[id].status \in ProgressionList(videos[id].type)
  /\ \A i \in 1..Len(db.videos) :
       db.videos[i].status \in ProgressionList(db.videos[i].type)

\* C2: an add-video request whose id is already in the repository is
\* rejected and leaves the repository's videos exactly as they were.
C2_DuplicateAddRejected ==
  [][/\ (/\ call'.op = "add_video"
         /\ Strip(call'.args.video_id) \in StoredVideoIds)
          => (IsFailure(outcome') /\ videos' = videos)
     /\ (/\ call'.op = "DataManager.add_video"
         /\ Strip(call'.args.video_id) \in DataManagerVideoIds)
          => (IsFailure(outcome') /\ db'.videos = db.videos)]_vars

\* C3: a status update on an existing video to a value outside the
\* progression list of that video's type is rejected and the stored status
\* of the video (indeed every stored video) is unchanged.
C3_InvalidStatusRejected ==
  [][/\ (/\ call'.op = "update_video_status"
         /\ call'.args.video_id \in StoredVideoIds
         /\ call'.args.status
              \notin ProgressionList(videos[call'.args.video_id].type))
          => (IsFailure(outcome') /\ videos' = videos)
     /\ (/\ call'.op = "DataManager.update_video"
         /\ call'.args.status # Missing
         /\ \E i \in 1..Len(db.videos) :
              /\ db.videos[i].id = call'.args.video_id
              /\ call'.args.status \notin ProgressionList(db.videos[i].type))
          => (IsFailure(outcome') /\ db'.videos = db.videos)]_vars

\* C3 witness: the videos table holds the video named by a status update
\* whose value is outside that video's list, and the update was refused as
\* an invalid status.
C3_Witness ==
  /\ call.op = "update_video_status"
  /\ call.args.video_id \in StoredVideoIds
  /\ call.args.status \notin ProgressionList(videos[call.args.video_id].type)
  /\ outcome.out = Flash("Invalid video status", "error")

\* C4: an update or delete naming an absent id changes nothing, and what
\* its caller sees differs from what the caller of a request that failed
\* validation sees.
C4_NotFoundDistinct ==
  [][/\ outcome'.cause = "not_found"
          => (videos' = videos /\ costs' = costs /\ settings' = settings /\ db' = db)
     /\ ~(/\ outcome.cause = "not_found"
          /\ outcome'.cause = "validation"
          /\ outcome'.out = outcome.out)]_vars

\* C5: when the persistence step of a write operation faults, the stored
\* state is the state before the operation and the caller sees a failure,
\* never a success.
C5_FaultRollsBackAndFails ==
  [][outcome'.cause = "persistence"
       => /\ videos' = videos /\ costs' = costs /\ settings' = settings /\ db' = db
          /\ IsFailure(outcome')
          /\ ~IsSuccess(outcome')]_vars

\* C6: the stored budget is a non-negative number in every state, a budget
\* update with a negative value is rejected and leaves the stored budget in
\* place, and a budget that is stored is never removed.
C6_BudgetNonNegative ==
  [][/\ ("budget" \in DOMAIN settings'
           => (settings'["budget"].k = "num" /\ settings'["budget"].n >= 0))
     /\ (db'.budget # Absent => (db'.budget.k = "num" /\ db'.budget.n >= 0))
     /\ (/\ call'.op \in {"update_budget", "DataManager.set_budget"}
         /\ call'.args.budget.k = "num"
         /\ call'.args.budget.n < 0)
          => (IsFailure(outcome') /\ settings' = settings /\ db'.budget = db.budget)
     /\ ("budget" \in DOMAIN settings => "budget" \in DOMAIN settings')
     /\ (db.budget # Absent => db'.budget # Absent)]_vars

\* The amount is a number greater than 0 and at most 1,000,000.
AmountInRange(a) == a.k = "num" /\ a.n > 0 /\ a.n <= 1000000

\* C7: every cost that creation accepts has an amount greater than 0 and at
\* most 1,000,000; a creation request with any other amount is rejected and
\* leaves the cost collection unchanged.
C7_AmountInRange ==
  [][/\ (call'.op \in {"add_cost", "DataManager.add_cost"} /\ IsSuccess(outcome'))
          => AmountInRange(call'.args.amount)
     /\ (call'.op \in {"add_cost", "DataManager.add_cost"}
           /\ ~AmountInRange(call'.args.amount))
          => (IsFailure(outcome') /\ costs' = costs /\ db'.costs = db.costs)]_vars

\* The name a cost record carries: a Tool or Freelancer cost has a
\* non-empty name, an Other cost a null name.
NameMatchesType(c) ==
  IF c.type \in {"Tool", "Freelancer"}
    THEN "name" \in DOMAIN c /\ c.name \notin {None, ""}
    ELSE "name" \notin DOMAIN c \/ c.name = None

\* C8: every stored cost carries the name its type calls for, and creating
\* a Tool or Freelancer cost with an empty name is rejected without adding
\* a cost.
C8_NameMatchesType ==
  [][/\ \A id \in DOMAIN costs' : NameMatchesType(costs'[id])
     /\ \A i \in 1..Len(db'.costs) : NameMatchesType(db'.costs[i])
     /\ (/\ call'.op = "add_cost"
         /\ call'.args.cost_type \in {"Tool", "Freelancer"}
         /\ Strip(call'.args.cost_name) = "")
          => (IsFailure(outcome') /\ costs' = costs)]_vars

\* C9: a cost added without an id gets max(existing ids) + 1 (1 when there
\* are none), and the ids of the stored costs are pairwise distinct.
C9_CostIdsDistinct ==
  [][/\ (/\ call'.op = "DataManager.add_cost"
         /\ call'.args.id = NoId
         /\ IsSuccess(outcome'))
          => /\ Len(db'.costs) = Len(db.costs) + 1
             /\ db'.costs[Len(db'.costs)].id = SetMax(DataManagerCostIds) + 1
     /\ \A i, j \in 1..Len(db'.costs) : i # j => db'.costs[i].id # db'.costs[j].id]_vars

\* C10: every stored Video and Cost dict, which to_dict produced, is
\* accepted by from_dict, and the reconstructed record serializes to the
\* same dict, field for field (a Cost's fields including its name).
C10_RoundTrip ==
  /\ \A i \in 1..Len(db.videos) :
       LET back == Video_from_dict(db.videos[i])
       IN back.exc = None /\ Video_to_dict(back.obj) = db.videos[i]
  /\ \A i \in 1..Len(db.costs) :
       LET back == CostModel_from_dict(db.costs[i], MaxTime)
       IN /\ back.exc = None
          /\ CostModel_to_dict(back.obj) = db.costs[i]
          /\ "name" \in DOMAIN db.costs[i]

(***************************************************************************)
(* The statistics: properties of the ProjectStats methods and of the two   *)
(* dashboard handlers.                                                     *)
(***************************************************************************)
\* The instance the last ProjectStats method was called on, and what it
\* returned.
Self == call.args.self
Returned == outcome.out[1] = "value"
Result == outcome.out[2]

\* The union of the two progression lists: 7 distinct statuses.
AllStatuses == ProgressionList("Brand") \cup ProgressionList("Testimonial")

RECURSIVE SumOver(_, _)
SumOver(f, S) ==
  IF S = {} THEN 0
  ELSE LET x == CHOOSE y \in S : TRUE IN f[x] + SumOver(f, S \ {x})

\* The sum of the amounts of the costs of a list that pass a test.
AmountOf(list, test(_)) ==
  SumOver([i \in 1..Len(list) |-> list[i].amount.n], {i \in 1..Len(list) : test(list[i])})

\* C11: the status distribution has exactly one entry for each of the 7
\* statuses of the two progression lists, each entry is the number of videos
\* at that status whatever their type, and computing it does not fail; this
\* for ProjectStats.get_status_distribution and for the dashboard view.
C11_StatusDistribution ==
  /\ call.op = "ProjectStats.get_status_distribution" =>
       /\ Returned
       /\ DOMAIN Result = AllStatuses
       /\ \A s \in AllStatuses :
            Result[s] = Cardinality({i \in 1..Len(Self.videos) : Self.videos[i].status = s})
  /\ call.op = "index" =>
       /\ DOMAIN outcome.out[3].status_counts = AllStatuses
       /\ \A s \in AllStatuses :
            outcome.out[3].status_counts[s]
              = Cardinality({id \in DOMAIN videos : videos[id].status = s})

\* C12: pending = total - completed and 0 <= completed <= total, where
\* completed is the number of videos whose status is "Final"; for the
\* ProjectStats figures of every video list and for the dashboard figures of
\* every table the handlers build.
C12_PendingAndCompleted ==
  /\ call.op \in {"ProjectStats.get_total_videos", "ProjectStats.get_completed_videos",
                  "ProjectStats.get_pending_videos"} =>
       LET total == Len(Self.videos)
           completed == Cardinality({i \in 1..Len(Self.videos) :
                                       Self.videos[i].status = "Final"})
       IN /\ Returned
          /\ 0 <= completed /\ completed <= total
          /\ call.op = "ProjectStats.get_total_videos" => Result = total
          /\ call.op = "ProjectStats.get_completed_videos" => Result = completed
          /\ call.op = "ProjectStats.get_pending_videos" => Result = total - completed
  /\ call.op = "index" =>
       LET figures == outcome.out[3]
       IN /\ figures.total_videos = Cardinality(DOMAIN videos)
          /\ figures.completed_videos
               = Cardinality({id \in DOMAIN videos : videos[id].status = "Final"})
          /\ figures.pending_videos = figures.total_videos - figures.completed_videos
          /\ 0 <= figures.completed_videos
          /\ figures.completed_videos <= figures.total_videos

\* get_pending_videos was called on a list that holds a video at "Final" and
\* a video that is not.
C12_Witness ==
  /\ call.op = "ProjectStats.get_pending_videos"
  /\ \E i, j \in 1..Len(Self.videos) :
       Self.videos[i].status = "Final" /\ Self.videos[j].status # "Final"
  /\ Result = 1

\* C13: for a budget >= 0, budget status has spent = the sum of the USD
\* amounts, remaining = budget - spent, over_budget = (remaining < 0),
\* near_budget = (remaining < 10% of budget) when budget > 0 and false when
\* budget = 0, and percentage_used = 0 when budget = 0; budget 100 with spent
\* 120 gives remaining -20 and over_budget, budget 100 with spent 95 gives
\* near_budget.
C13_BudgetStatus ==
  call.op = "ProjectStats.get_budget_status" =>
    LET budget == Self.budget.n
        spent == AmountOf(Self.costs, LAMBDA c : c.currency = "USD")
        remaining == budget - spent
    IN /\ Returned
       /\ Result.spent = Num(spent)
       /\ Result.remaining = Num(remaining)
       /\ Result.over_budget = (remaining < 0)
       /\ budget > 0 => Result.near_budget = (10 * remaining < budget)
       /\ budget = 0 => (~Result.near_budget /\ Result.percentage_used.n = 0)
       /\ (budget = 100 /\ spent = 120) =>
            (Result.remaining = Num(0 - 20) /\ Result.over_budget)
       /\ (budget = 100 /\ spent = 95) => Result.near_budget

\* get_budget_status was called with budget 100 on costs of both currencies
\* whose USD amounts sum to 95.
C13_Witness ==
  /\ call.op = "ProjectStats.get_budget_status"
  /\ Self.budget = Num(100)
  /\ \E i \in 1..Len(Self.costs) : Self.costs[i].currency = "PKR"
  /\ Result.spent = Num(95)
  /\ Result.near_budget

\* C14: cost distribution by type has an entry for each of Tool, Freelancer
\* and Other, equal to the sum of the amounts of the USD costs of that type;
\* PKR costs add nothing, and a list of PKR costs alone gives 0 three times.
C14_CostDistribution ==
  call.op = "ProjectStats.get_cost_distribution_by_type" =>
    /\ Returned
    /\ DOMAIN Result = {"Tool", "Freelancer", "Other"}
    /\ \A t \in {"Tool", "Freelancer", "Other"} :
         Result[t] = Num(AmountOf(Self.costs, LAMBDA c : c.type = t /\ c.currency = "USD"))
    /\ (\A i \in 1..Len(Self.costs) : Self.costs[i].currency = "PKR") =>
         \A t \in {"Tool", "Freelancer", "Other"} : Result[t] = Num(0)

\* The distribution was computed for a list of PKR costs alone.
C14_Witness ==
  /\ call.op = "ProjectStats.get_cost_distribution_by_type"
  /\ Len(Self.costs) = 2
  /\ \A i \in 1..Len(Self.costs) : Self.costs[i].currency = "PKR"
  /\ Result["Tool"] = Num(0)

\* C15: with an empty video list the completion rate is 0 and the average
\* cost per video is 0 for USD and for PKR, whatever the cost list, and
\* neither raises a division error.
C15_EmptyVideoList ==
  /\ (call.op = "ProjectStats.get_completion_rate" /\ Self.videos = <<>>) =>
       (Returned /\ Result.n = 0)
  /\ (call.op = "ProjectStats.get_average_cost_per_video" /\ Self.videos = <<>>) =>
       (Returned /\ Result.USD.n = 0 /\ Result.PKR.n = 0)

\* The average was computed for no video and a cost list that is not empty.
C15_Witness ==
  /\ call.op = "ProjectStats.get_average_cost_per_video"
  /\ Self.videos = <<>>
  /\ Self.costs # <<>>
  /\ Returned

\* What C16 asks of the limit most recent of the records of a list.
IsMostRecent(out, list, limit) ==
  LET Pos(id) == CHOOSE i \in 1..Len(list) : list[i].id = id
      returned == {out[i].id : i \in 1..Len(out)}
  IN /\ Len(out) = IF limit < Len(list) THEN limit ELSE Len(list)
     /\ \A i \in 1..Len(out) : \E j \in 1..Len(list) :
          /\ out[i].id = list[j].id
          /\ out[i].created_at = list[j].created_at
     /\ \A i, j \in 1..Len(out) : i < j =>
          /\ out[i].id # out[j].id
          /\ out[i].created_at >= out[j].created_at
          /\ out[i].created_at = out[j].created_at => Pos(out[i].id) < Pos(out[j].id)
     /\ \A j \in 1..Len(list) : list[j].id \notin returned =>
          \A i \in 1..Len(out) : list[j].created_at <= out[i].created_at

\* C16: recent activity with limit N returns exactly min(N, number of records)
\* videos, and likewise costs, newest first by created_at; no record left out
\* is newer than one returned; records with equal timestamps keep their
\* order in the list, and a missing timestamp counts as the oldest.
C16_RecentActivity ==
  call.op = "ProjectStats.get_recent_activity" =>
    /\ Returned
    /\ IsMostRecent(Result.videos, Self.videos, call.args.argv[1])
    /\ IsMostRecent(Result.costs, Self.costs, call.args.argv[1])

\* Two of three videos were returned: two with the same timestamp, in their
\* order in the list, while the video without a timestamp was left out.
C16_Witness ==
  /\ call.op = "ProjectStats.get_recent_activity"
  /\ call.args.argv[1] = 2
  /\ Len(Self.videos) = 3
  /\ Self.videos[1].created_at = NoTime
  /\ Self.videos[2].created_at = Self.videos[3].created_at
  /\ Len(Result.videos) = 2
  /\ Result.videos[1].id = Self.videos[2].id
  /\ Result.videos[2].id = Self.videos[3].id

\* C19: in every state the handlers reach, the JSON dashboard endpoint
\* succeeds and reports the total, the completed count, the type counts and
\* the status counts that the dashboard view computes for that state (a
\* status the endpoint leaves out is read as a count of 0), and its status
\* counts sum to the total.
C19_EndpointMatchesView ==
  call.op = "api_dashboard_data" =>
    /\ outcome.out[2] = "200"
    /\ LET body == outcome.out[3]
           view == index_context
       IN /\ body.total_videos = view.total_videos
          /\ body.completed_videos = view.completed_videos
          /\ body.type_counts = view.type_counts
          /\ \A s \in DOMAIN view.status_counts :
               view.status_counts[s]
                 = IF s \in DOMAIN body.status_counts THEN body.status_counts[s] ELSE 0
          /\ SumOver(body.status_counts, DOMAIN body.status_counts) = body.total_videos

(***************************************************************************)
(* import_data and interleaved adds: properties.                           *)
(***************************************************************************)
\* What the data model accepts as a video, a cost and a budget.
IsValidVideoData(d) ==
  /\ d.id # ""
  /\ d.type \in {"Brand", "System", "Testimonial", "About"}
  /\ d.status \in ProgressionList(d.type)

IsValidCostData(d) ==
  /\ d.type \in {"Tool", "Freelancer", "Other"}
  /\ AmountInRange(d.amount)
  /\ d.currency \in {"USD", "PKR"}

IsValidBudgetData(b) == b.k = "num" /\ b.n >= 0

\* Some part of the data that the dict carries fails validation.
SomePartInvalid(data) ==
  \/ "videos" \in data.keys /\ \E i \in 1..Len(data.videos) : ~IsValidVideoData(data.videos[i])
  \/ "costs" \in data.keys /\ \E i \in 1..Len(data.costs) : ~IsValidCostData(data.costs[i])
  \/ "budget" \in data.keys /\ ~IsValidBudgetData(data.budget)

\* Every part that the dict carries is what the store now holds.
EveryPartStored(data, store) ==
  /\ "videos" \in data.keys =>
       /\ Len(store.videos) = Len(data.videos)
       /\ \A i \in 1..Len(data.videos) : store.videos[i].id = data.videos[i].id
  /\ "costs" \in data.keys =>
       /\ Len(store.costs) = Len(data.costs)
       /\ \A i \in 1..Len(data.costs) : store.costs[i].amount = data.costs[i].amount
  /\ "budget" \in data.keys => store.budget = data.budget

\* C17: import_data is all-or-nothing: when a video, a cost or the budget of
\* the data fails validation, the stored videos, costs and budget are what
\* they were before the call; and it returns True only if every part of the
\* data was stored.
C17_ImportAllOrNothing ==
  [][call'.op = "DataManager.import_data" =>
       /\ SomePartInvalid(call'.args.data) => db' = db
       /\ outcome'.out = Return(TRUE) => EveryPartStored(call'.args.data, db')]_vars

\* What C18 asks of a record that a request added: it is in the store.
IsPresent(req) ==
  IF req.op = "add_video"
    THEN \E i \in 1..Len(db.videos) : db.videos[i].id = req.record.id
    ELSE \E i \in 1..Len(db.costs) : db.costs[i].notes = req.record.notes

\* C18: when two add requests for different records interleave at the
\* read-all / append / write-all steps and both report success, both records
\* are in the repository afterwards.
C18_NoAddLost ==
  \A r, q \in Requests :
    (/\ r # q
     /\ inflight[r].pc = "done" /\ inflight[r].ret = "True"
     /\ inflight[q].pc = "done" /\ inflight[q].ret = "True"
     /\ inflight[r].op = inflight[q].op
     /\ IF inflight[r].op = "add_video"
          THEN inflight[r].record.id # inflight[q].record.id
          ELSE inflight[r].record.notes # inflight[q].record.notes)
    => (IsPresent(inflight[r]) /\ IsPresent(inflight[q]))

====
